---- MODULE Spec2Model ----
(***************************************************************************)
(* Model of the NEXOVA AI service: the ModelInference engine               *)
(* (ai-service/model_inference.py) and the FastAPI handlers that drive it  *)
(* (ai-service/main.py).                                                   *)
(*                                                                         *)
(* Numbers.  Python floats are modelled in fixed point:                    *)
(*   - anomaly scores in thousandths (0.3 is 300, 1.0 is 1000);            *)
(*   - risk scores and the regressor's output in tenths (0.5 is 5);        *)
(*   - power / temperature / vibration / forecast values as integers.      *)
(* Every comparison the code makes is between values that are exact in     *)
(* this scale, so no threshold is moved by the scaling.                    *)
(***************************************************************************)
EXTENDS Integers, Sequences, FiniteSets, TLC

VARIABLES
    inference,       \* main.py global `inference`: None or the loaded handles
    request,         \* the HTTP request being handled, or None
    results,         \* the handler's local list `results`
    response,        \* the HTTP response of the request, or None
    call,            \* the engine method being executed and its arguments
    pc,              \* position of the engine call
    depth,           \* number of active frames of the engine method
    result,          \* what the engine call returned (or the exception raised)
    trainedEntries,  \* times this call entered a `try:` (trained) block
    fallbackRuns,    \* times this call computed the fallback block
    raisedAt,        \* batch indices whose trained path raised at least once
    model_dir,       \* the artifact directory, when it is tracked: which files
                     \* exist and which of them joblib.load can read
    singleton,       \* model_inference.py global `inference` (get_inference)
    constructions,   \* ModelInference objects constructed so far
    getpc,           \* position of each caller of get_inference
    service          \* a call of a services/ function: its arguments and result

\* the state outside the engine and the handlers
aside == <<model_dir, singleton, constructions, getpc, service>>

vars == <<inference, request, results, response, call, pc, depth, result,
          trainedEntries, fallbackRuns, raisedAt, aside>>

None == [kind |-> "none"]

(***************************************************************************)
(* Bounds of the model.                                                    *)
(***************************************************************************)
\* stands for Python's recursion limit (sys.getrecursionlimit(), 1000)
MaxDepth == 3
\* largest `periods` / `horizon` a caller passes
MaxHorizon == 3
\* longest history a caller passes
MaxHist == 2
\* longest batch of readings a request carries
MaxBatch == 2
\* rows of history the pickled Prophet model was fitted on
TrainRows == 2

(***************************************************************************)
(* Input domains.                                                          *)
(***************************************************************************)
PowerVals == {0, 100, 250, 280, 1000}
TempVals == {0, 45, 80, 90, 95, 200}
VibVals == {0, 2, 5, 9, 10, 50}
\* runtime = 1.0 and production = 5.0 are the defaults of the signature
RuntimeVals == {0, 1}
ProductionVals == {0, 5}

Readings ==
    [power : PowerVals, temperature : TempVals, vibration : VibVals,
     runtime : RuntimeVals, production : ProductionVals]

Reading(p, t, v) ==
    [power |-> p, temperature |-> t, vibration |-> v, runtime |-> 1, production |-> 5]

\* readings sent in HTTP batches
BatchReadings ==
    {Reading(100, 45, 2),
     [power |-> 1000, temperature |-> 200, vibration |-> 50, runtime |-> 0, production |-> 0]}

HistVals == {10, 22, 100, 298, 500}
\* draws of np.random.normal(0, 5)
Perturb == {-5, 0, 5}

SeqsUpTo(S, n) == UNION {[1..k -> S] : k \in 0..n}
Histories == SeqsUpTo(HistVals, MaxHist)
Horizons == 0..MaxHorizon
Batches == SeqsUpTo(BatchReadings, MaxBatch)

\* callers of get_inference
Threads == {1, 2}

Max(a, b) == IF a >= b THEN a ELSE b
Min(a, b) == IF a <= b THEN a ELSE b

(***************************************************************************)
(* ModelInference._load_models: the five handles after construction.       *)
(* exists[f]: os.path.exists(f);  loads[f]: joblib.load(f) does not raise. *)
(* A handle is TRUE when it holds a loaded artifact, FALSE when it is None.*)
(***************************************************************************)
Files ==
    {"forecast_prophet.pkl", "anomaly_isolation_forest.pkl", "anomaly_scaler.pkl",
     "recommendation_rf.pkl", "recommendation_scaler.pkl"}

\* one `try:` block loading a model and its paired scaler: the scaler is
\* loaded only after the model loaded, and an exception leaves what was
\* already assigned
LoadPair(exists, loads, model_file, scaler_file) ==
    LET attempted == exists[model_file] /\ exists[scaler_file]
        model == attempted /\ loads[model_file]
    IN  <<model, model /\ loads[scaler_file]>>

\* faulty variant: one `try:` block around the three loads, so the first
\* load that raises leaves every later handle None
LoadModels_SingleTry(exists, loads) ==
    LET f == "forecast_prophet.pkl"
        forecast_ok == ~exists[f] \/ loads[f]
        a == LoadPair(exists, loads, "anomaly_isolation_forest.pkl", "anomaly_scaler.pkl")
        anomaly_ok ==
            ~(exists["anomaly_isolation_forest.pkl"] /\ exists["anomaly_scaler.pkl"])
            \/ a[2]
        r == LoadPair(exists, loads, "recommendation_rf.pkl", "recommendation_scaler.pkl")
    IN  [kind |-> "ModelInference",
         forecast_model |-> exists[f] /\ loads[f],
         anomaly_model |-> forecast_ok /\ a[1],
         anomaly_scaler |-> forecast_ok /\ a[2],
         recommendation_model |-> forecast_ok /\ anomaly_ok /\ r[1],
         recommendation_scaler |-> forecast_ok /\ anomaly_ok /\ r[2]]

LoadModels(exists, loads) ==
    LET anomaly == LoadPair(exists, loads, "anomaly_isolation_forest.pkl", "anomaly_scaler.pkl")
        rec == LoadPair(exists, loads, "recommendation_rf.pkl", "recommendation_scaler.pkl")
    IN  [kind |-> "ModelInference",
         forecast_model |-> exists["forecast_prophet.pkl"] /\ loads["forecast_prophet.pkl"],
         anomaly_model |-> anomaly[1],
         anomaly_scaler |-> anomaly[2],
         recommendation_model |-> rec[1],
         recommendation_scaler |-> rec[2]]

Stores == {LoadModels(e, l) : e \in [Files -> BOOLEAN], l \in [Files -> BOOLEAN]}

(***************************************************************************)
(* The guards that select the fallback block of each engine method.        *)
(***************************************************************************)
\* faulty variant: the guard without its `not`
ForecastUsesFallback_NoNot(self) == self.forecast_model

ForecastUsesFallback(self) == ~self.forecast_model

AnomalyUsesFallback(self) == ~self.anomaly_model \/ ~self.anomaly_scaler

RecommendUsesFallback(self) == ~self.recommendation_model \/ ~self.recommendation_scaler

UsesFallback(self, op) ==
    CASE op = "forecast_energy" -> ForecastUsesFallback(self)
      [] op = "detect_anomalies" -> AnomalyUsesFallback(self)
      [] op = "recommend_maintenance" -> RecommendUsesFallback(self)

(***************************************************************************)
(* forecast_energy, fallback block.  draws[i] is the i-th value of         *)
(* np.random.normal(0, 5).                                                 *)
(***************************************************************************)
ForecastLower(x) == Max(20, x - 10)

ForecastUpper(x) == Min(300, x + 10)

\* faulty variant: an empty history seeded with the floor instead of 100
FallbackForecast_FloorSeed(historical_data, periods, draws) ==
    LET seed == IF historical_data # <<>>
                THEN historical_data[Len(historical_data)] ELSE 20
        next_val[i \in 0..periods] == IF i = 0 THEN seed ELSE next_val[i - 1] + draws[i]
        forecast == [i \in 1..periods |-> Max(20, next_val[i])]
    IN  [kind |-> "forecast",
         forecast |-> forecast,
         lower_bound |-> [i \in 1..periods |-> ForecastLower(forecast[i])],
         upper_bound |-> [i \in 1..periods |-> ForecastUpper(forecast[i])],
         model |-> "fallback"]

FallbackForecast(historical_data, periods, draws) ==
    LET seed == IF historical_data # <<>>
                THEN historical_data[Len(historical_data)] ELSE 100
        \* the value of `next_val` (and so of `last`) after iteration i
        next_val[i \in 0..periods] == IF i = 0 THEN seed ELSE next_val[i - 1] + draws[i]
        forecast == [i \in 1..periods |-> Max(20, next_val[i])]
    IN  [kind |-> "forecast",
         forecast |-> forecast,
         lower_bound |-> [i \in 1..periods |-> ForecastLower(forecast[i])],
         upper_bound |-> [i \in 1..periods |-> ForecastUpper(forecast[i])],
         model |-> "fallback"]

(***************************************************************************)
(* forecast_energy, trained block.  The pickled Prophet model predicts     *)
(* over make_future_dataframe(periods), which holds the TrainRows rows of  *)
(* its training history followed by `periods` future rows; the code keeps  *)
(* forecast.iloc[-periods:].  The supplied history is put in a dataframe   *)
(* that nothing reads.                                                     *)
(***************************************************************************)
ProphetRows ==
    {[yhat |-> 100, yhat_lower |-> 90, yhat_upper |-> 110],
     [yhat |-> 50, yhat_lower |-> 45, yhat_upper |-> 60]}

ProphetPredictions(periods) == [1..(TrainRows + periods) -> ProphetRows]

\* Python's s[-n:] : -0 is 0, so n = 0 selects everything
SliceLast(s, n) ==
    IF n = 0 THEN s ELSE SubSeq(s, Max(1, Len(s) - n + 1), Len(s))

TrainedForecast(periods, prediction) ==
    LET future_forecast == SliceLast(prediction, periods)
        n == Len(future_forecast)
    IN  [kind |-> "forecast",
         forecast |-> [i \in 1..n |-> future_forecast[i].yhat],
         lower_bound |-> [i \in 1..n |-> future_forecast[i].yhat_lower],
         upper_bound |-> [i \in 1..n |-> future_forecast[i].yhat_upper],
         model |-> "prophet"]

(***************************************************************************)
(* detect_anomalies.                                                       *)
(***************************************************************************)
\* faulty variant: the temperature comparison reversed
HeuristicAnomalyScore_TempReversed(r) ==
    (IF r.temperature < 80 THEN 300 ELSE 0)
    + (IF r.vibration > 5 THEN 300 ELSE 0)
    + (IF r.power > 250 THEN 200 ELSE 0)

\* faulty variant: the power rule adds 0.4 instead of 0.2
HeuristicAnomalyScore_PowerWeight(r) ==
    (IF r.temperature > 80 THEN 300 ELSE 0)
    + (IF r.vibration > 5 THEN 300 ELSE 0)
    + (IF r.power > 250 THEN 400 ELSE 0)

HeuristicAnomalyScore(r) ==
    (IF r.temperature > 80 THEN 300 ELSE 0)
    + (IF r.vibration > 5 THEN 300 ELSE 0)
    + (IF r.power > 250 THEN 200 ELSE 0)

\* faulty variant: is_anomaly decided at 0.5 instead of 0.4
HeuristicAnomaly_Threshold(r) ==
    LET anomaly_score == HeuristicAnomalyScore(r)
    IN  [kind |-> "anomaly",
         is_anomaly |-> anomaly_score > 500,
         anomaly_score |-> Min(1000, anomaly_score),
         model |-> "heuristic"]

HeuristicAnomaly(r) ==
    LET anomaly_score == HeuristicAnomalyScore(r)
    IN  [kind |-> "anomaly",
         is_anomaly |-> anomaly_score > 400,
         anomaly_score |-> Min(1000, anomaly_score),
         model |-> "heuristic"]

\* values of score_samples(...)[0], in thousandths; IsolationForest yields
\* values in [-1, 0), the two extremes stand for any other scorer
RawScores == {-40000, -1000, -500, 0, 40000}
Predictions == {-1, 1}

\* faulty variant: the raw score returned without the logistic transform
Logistic_Raw(s) == s

\* 1 / (1 + exp(-s)) rounded to thousandths
Logistic(s) ==
    CASE s = -40000 -> 0
      [] s = -1000 -> 269
      [] s = -500 -> 378
      [] s = 0 -> 500
      [] s = 40000 -> 1000

TrainedAnomaly(prediction, score) ==
    [kind |-> "anomaly",
     is_anomaly |-> (prediction = -1),
     anomaly_score |-> Logistic(score),
     model |-> "isolation_forest"]

(***************************************************************************)
(* recommend_maintenance.  Risk scores are in tenths.                      *)
(***************************************************************************)
urgency_map == (0 :> "NONE") @@ (1 :> "LOW") @@ (2 :> "MEDIUM") @@ (3 :> "HIGH")

recommendations ==
    (0 :> "Normal operation") @@ (1 :> "Monitor closely")
    @@ (2 :> "Schedule maintenance soon") @@ (3 :> "Urgent maintenance required")

\* Python int() of a float given in tenths: truncation toward zero
IntOf(x) == IF x >= 0 THEN x \div 10 ELSE -((-x) \div 10)

KeyError == [kind |-> "exception", type |-> "KeyError"]

\* faulty variant: the vibration comparison reversed
HeuristicRiskScore_VibReversed(r) ==
    (IF r.temperature > 80 THEN 10 ELSE 0)
    + (IF r.vibration < 5 THEN 10 ELSE 0)
    + (IF r.power > 250 THEN 5 ELSE 0)

\* faulty variant: the power rule adds 1 instead of 0.5
HeuristicRiskScore_PowerWeight(r) ==
    (IF r.temperature > 80 THEN 10 ELSE 0)
    + (IF r.vibration > 5 THEN 10 ELSE 0)
    + (IF r.power > 250 THEN 10 ELSE 0)

HeuristicRiskScore(r) ==
    (IF r.temperature > 80 THEN 10 ELSE 0)
    + (IF r.vibration > 5 THEN 10 ELSE 0)
    + (IF r.power > 250 THEN 5 ELSE 0)

\* faulty variant: the score rounded to the nearest integer
HeuristicRiskLevel_Round(risk_score) == Min(3, IntOf(risk_score + 5))

HeuristicRiskLevel(risk_score) == Min(3, IntOf(risk_score))

HeuristicRecommend(r) ==
    LET risk_score == HeuristicRiskScore(r)
        level == HeuristicRiskLevel(risk_score)
    IN  IF level \notin DOMAIN urgency_map THEN KeyError
        ELSE [kind |-> "recommendation",
              risk_level |-> level,
              urgency |-> urgency_map[level],
              recommendation |-> IF risk_score > 10 THEN "Schedule routine maintenance"
                                 ELSE "Normal operation",
              model |-> "heuristic"]

\* values of recommendation_model.predict(...)[0], in tenths
RiskPredictions == {-15, 0, 4, 19, 25, 30, 47}

Clip(x, lo, hi) == Max(lo, Min(x, hi))

\* faulty variant: the prediction truncated without np.clip
TrainedRiskLevel_NoClip(risk_prediction) == IntOf(risk_prediction)

TrainedRiskLevel(risk_prediction) == IntOf(Clip(risk_prediction, 0, 30))

TrainedRecommend(risk_prediction) ==
    LET risk_level == TrainedRiskLevel(risk_prediction)
    IN  IF risk_level \notin DOMAIN urgency_map THEN KeyError
        ELSE [kind |-> "recommendation",
              risk_level |-> risk_level,
              urgency |-> urgency_map[risk_level],
              recommendation |-> recommendations[risk_level],
              model |-> "random_forest"]

(***************************************************************************)
(* The engine methods as a call in progress.  The three methods share one  *)
(* shape: a guard that selects the fallback block, else a `try:` block     *)
(* whose `except Exception` handler returns a recursive call of the same   *)
(* method with the same arguments.                                         *)
(***************************************************************************)
LibraryError == [kind |-> "exception", type |-> "Exception"]
RecursionError == [kind |-> "exception", type |-> "RecursionError"]

ForecastArgs == [historical_data : Histories, periods : Horizons]

\* what the fallback block of the called method can return
FallbackResults(c) ==
    CASE c.op = "forecast_energy" ->
            {FallbackForecast(c.args.historical_data, c.args.periods, d) :
                d \in [1..c.args.periods -> Perturb]}
      [] c.op = "detect_anomalies" -> {HeuristicAnomaly(c.args)}
      [] c.op = "recommend_maintenance" -> {HeuristicRecommend(c.args)}

\* what the `try:` block of the called method can compute when the
\* libraries it calls do not raise
TrainedResults(c) ==
    CASE c.op = "forecast_energy" ->
            {TrainedForecast(c.args.periods, p) : p \in ProphetPredictions(c.args.periods)}
      [] c.op = "detect_anomalies" ->
            {TrainedAnomaly(p, s) : p \in Predictions, s \in RawScores}
      [] c.op = "recommend_maintenance" ->
            {TrainedRecommend(p) : p \in RiskPredictions}

Invoke(op, args) ==
    /\ call' = [kind |-> "call", op |-> op, args |-> args]
    /\ pc' = "enter"
    /\ depth' = 1
    /\ result' = None
    /\ trainedEntries' = 0
    /\ fallbackRuns' = 0

\* the top frame runs the fallback block; its value is returned through
\* every frame below it
RunFallback ==
    /\ pc = "enter"
    /\ UsesFallback(inference, call.op)
    /\ \E out \in FallbackResults(call) :
          /\ result' = out
          /\ pc' = IF out.kind = "exception" THEN "raised" ELSE "returned"
    /\ fallbackRuns' = fallbackRuns + 1
    /\ depth' = 0
    /\ UNCHANGED <<aside, inference, request, results, response, call, trainedEntries, raisedAt>>

\* the top frame runs the `try:` block to its return statement
TrainedReturn ==
    /\ pc = "enter"
    /\ ~UsesFallback(inference, call.op)
    /\ \E out \in TrainedResults(call) :
          /\ out.kind # "exception"
          /\ result' = out
    /\ pc' = "returned"
    /\ trainedEntries' = trainedEntries + 1
    /\ depth' = 0
    /\ UNCHANGED <<aside, inference, request, results, response, call, fallbackRuns, raisedAt>>

\* the frame the `except` handler calls next: the same method, entered at
\* its guard again
RetryFrame(d) == d + 1

\* faulty variant: the handler drops the handles of the capability that
\* raised before it calls the method again
TrainedRaise_DropsHandles ==
    /\ pc = "enter"
    /\ ~UsesFallback(inference, call.op)
    /\ depth' = RetryFrame(depth)
    /\ pc' = "enter"
    /\ result' = LibraryError
    /\ inference' =
          CASE call.op = "forecast_energy" ->
                  [inference EXCEPT !.forecast_model = FALSE]
            [] call.op = "detect_anomalies" ->
                  [inference EXCEPT !.anomaly_model = FALSE, !.anomaly_scaler = FALSE]
            [] call.op = "recommend_maintenance" ->
                  [inference EXCEPT !.recommendation_model = FALSE,
                                    !.recommendation_scaler = FALSE]
    /\ trainedEntries' = trainedEntries + 1
    /\ raisedAt' = IF request # None THEN raisedAt \cup {Len(results) + 1} ELSE raisedAt
    /\ UNCHANGED <<aside, request, results, response, call, fallbackRuns>>

\* the `try:` block raises; the handler calls the method again, which is a
\* new frame unless the interpreter's recursion limit is reached
TrainedRaise ==
    /\ pc = "enter"
    /\ ~UsesFallback(inference, call.op)
    /\ \E e \in {LibraryError} \cup {o \in TrainedResults(call) : o.kind = "exception"} :
          IF RetryFrame(depth) <= MaxDepth
          THEN /\ depth' = RetryFrame(depth)
               /\ pc' = "enter"
               /\ result' = e
          ELSE /\ depth' = 0
               /\ pc' = "raised"
               /\ result' = RecursionError
    /\ trainedEntries' = trainedEntries + 1
    /\ raisedAt' = IF request # None THEN raisedAt \cup {Len(results) + 1} ELSE raisedAt
    /\ UNCHANGED <<aside, inference, request, results, response, call, fallbackRuns>>

(***************************************************************************)
(* Callers that hold a ModelInference and call its methods directly.       *)
(***************************************************************************)
CanCall == inference # None /\ request = None /\ pc = "idle"

CallForecast ==
    /\ CanCall
    /\ \E a \in ForecastArgs : Invoke("forecast_energy", a)
    /\ UNCHANGED <<aside, inference, request, results, response, raisedAt>>

CallDetect ==
    /\ CanCall
    /\ \E r \in Readings : Invoke("detect_anomalies", r)
    /\ UNCHANGED <<aside, inference, request, results, response, raisedAt>>

CallRecommend ==
    /\ CanCall
    /\ \E r \in Readings : Invoke("recommend_maintenance", r)
    /\ UNCHANGED <<aside, inference, request, results, response, raisedAt>>

Idle ==
    /\ call' = None
    /\ pc' = "idle"
    /\ depth' = 0
    /\ result' = None
    /\ trainedEntries' = 0
    /\ fallbackRuns' = 0

CallEnds ==
    /\ request = None
    /\ pc \in {"returned", "raised"}
    /\ Idle
    /\ UNCHANGED <<aside, inference, request, results, response, raisedAt>>

(***************************************************************************)
(* main.py: the startup hook and the three POST handlers.                  *)
(***************************************************************************)
\* startup_event: ModelInference(model_dir='./models'); _load_models catches
\* every load exception, so the constructor returns for every directory
Startup ==
    /\ inference = None
    /\ \E exists \in [Files -> BOOLEAN], loads \in [Files -> BOOLEAN] :
          /\ model_dir \in {None, [exists |-> exists, loads |-> loads]}
          /\ inference' = LoadModels(exists, loads)
    /\ constructions' = constructions + 1
    /\ UNCHANGED <<model_dir, singleton, getpc, service>>
    /\ UNCHANGED <<request, results, response, call, pc, depth, result,
                   trainedEntries, fallbackRuns, raisedAt>>

BatchEndpoints == {"/anomaly", "/recommendations"}

Requests ==
    [kind : {"request"}, endpoint : {"/forecast"}, data : Histories, horizon : Horizons]
    \cup [kind : {"request"}, endpoint : BatchEndpoints, data : Batches]

EngineMethod(endpoint) ==
    CASE endpoint = "/forecast" -> "forecast_energy"
      [] endpoint = "/anomaly" -> "detect_anomalies"
      [] endpoint = "/recommendations" -> "recommend_maintenance"

HTTPException(status) == [kind |-> "response", status |-> status]

CanReceive == request = None /\ response = None /\ pc = "idle"

\* faulty variant: the payload check made before the store check
Reject503_After400 ==
    /\ CanReceive
    /\ inference = None
    /\ \E req \in Requests :
          /\ request' = req
          /\ response' = IF req.data = <<>> THEN HTTPException(400) ELSE HTTPException(503)
    /\ UNCHANGED <<aside, inference, results, call, pc, depth, result,
                   trainedEntries, fallbackRuns, raisedAt>>

\* `if inference is None: raise HTTPException(status_code=503, ...)`
Reject503 ==
    /\ CanReceive
    /\ inference = None
    /\ \E req \in Requests : request' = req
    /\ response' = HTTPException(503)
    /\ UNCHANGED <<aside, inference, results, call, pc, depth, result,
                   trainedEntries, fallbackRuns, raisedAt>>

\* `if not request.data: raise HTTPException(status_code=400, ...)`
Reject400 ==
    /\ CanReceive
    /\ inference # None
    /\ \E req \in Requests :
          /\ req.data = <<>>
          /\ request' = req
    /\ response' = HTTPException(400)
    /\ UNCHANGED <<aside, inference, results, call, pc, depth, result,
                   trainedEntries, fallbackRuns, raisedAt>>

\* the handler passes both checks and makes its first engine call
Accept ==
    /\ CanReceive
    /\ inference # None
    /\ \E req \in Requests :
          /\ req.data # <<>>
          /\ request' = req
          /\ IF req.endpoint = "/forecast"
             THEN Invoke("forecast_energy",
                         [historical_data |-> req.data, periods |-> req.horizon])
             ELSE Invoke(EngineMethod(req.endpoint), req.data[1])
    /\ results' = <<>>
    /\ raisedAt' = {}
    /\ UNCHANGED <<aside, inference, response>>

InHandler == request # None /\ response = None

\* /forecast: the engine returned; build the ForecastResponse
RespondForecast ==
    /\ InHandler
    /\ request.endpoint = "/forecast"
    /\ pc = "returned"
    /\ response' = [kind |-> "response", status |-> 200,
                    forecast |-> result.forecast,
                    lower_bound |-> result.lower_bound,
                    upper_bound |-> result.upper_bound,
                    model |-> result.model,
                    horizon |-> request.horizon]
    /\ Idle
    /\ UNCHANGED <<aside, inference, request, results, raisedAt>>

\* /anomaly, /recommendations: append the result and call the engine for
\* the next reading of the loop
Collect ==
    /\ InHandler
    /\ request.endpoint \in BatchEndpoints
    /\ pc = "returned"
    /\ Len(results) + 1 < Len(request.data)
    /\ results' = Append(results, result)
    /\ Invoke(EngineMethod(request.endpoint), request.data[Len(results) + 2])
    /\ UNCHANGED <<aside, inference, request, response, raisedAt>>

\* /anomaly, /recommendations: append the last result and return the response
RespondBatch ==
    /\ InHandler
    /\ request.endpoint \in BatchEndpoints
    /\ pc = "returned"
    /\ Len(results) + 1 = Len(request.data)
    /\ results' = Append(results, result)
    /\ response' = [kind |-> "response", status |-> 200,
                    results |-> results', total |-> Len(results')]
    /\ Idle
    /\ UNCHANGED <<aside, inference, request, raisedAt>>

\* `except Exception as e: raise HTTPException(status_code=500, ...)`
Respond500 ==
    /\ InHandler
    /\ pc = "raised"
    /\ response' = HTTPException(500)
    /\ Idle
    /\ UNCHANGED <<aside, inference, request, results, raisedAt>>

\* GET /models/status: the per-capability indicator reads the model handle
\* of each capability
StatusBody(self) ==
    [kind |-> "response", status |-> 200, state |-> "loaded",
     forecast_model |-> IF self.forecast_model THEN "prophet" ELSE "fallback",
     anomaly_model |-> IF self.anomaly_model THEN "isolation_forest" ELSE "heuristic",
     recommendation_model |->
        IF self.recommendation_model THEN "random_forest" ELSE "heuristic"]

ModelStatus ==
    /\ CanReceive
    /\ request' = [kind |-> "request", endpoint |-> "/models/status"]
    /\ response' = IF inference = None
                   THEN [kind |-> "response", status |-> 200, state |-> "not_loaded"]
                   ELSE StatusBody(inference)
    /\ UNCHANGED <<aside, inference, results, call, pc, depth, result,
                   trainedEntries, fallbackRuns, raisedAt>>

\* the response is sent; the handler's locals are gone
Close ==
    /\ request # None
    /\ response # None
    /\ request' = None
    /\ response' = None
    /\ results' = <<>>
    /\ raisedAt' = {}
    /\ UNCHANGED <<aside, inference, call, pc, depth, result, trainedEntries, fallbackRuns>>

(***************************************************************************)
(* Specification.                                                          *)
(***************************************************************************)
Init ==
    /\ inference = None
    /\ request = None
    /\ results = <<>>
    /\ response = None
    /\ call = None
    /\ pc = "idle"
    /\ depth = 0
    /\ result = None
    /\ trainedEntries = 0
    /\ fallbackRuns = 0
    /\ raisedAt = {}
    /\ model_dir = None
    /\ singleton = None
    /\ constructions = 0
    /\ getpc = [t \in Threads |-> "idle"]
    /\ service = None

Next ==
    \/ Startup
    \/ CallForecast
    \/ CallDetect
    \/ CallRecommend
    \/ RunFallback
    \/ TrainedReturn
    \/ TrainedRaise
    \/ CallEnds
    \/ Reject503
    \/ Reject400
    \/ Accept
    \/ RespondForecast
    \/ Collect
    \/ RespondBatch
    \/ Respond500
    \/ ModelStatus
    \/ Close

(***************************************************************************)
(* get_inference: the accessor of model_inference.py, with its own module  *)
(* global.  The test of the global and the construction are two steps, as  *)
(* the constructor reads files between them.                               *)
(***************************************************************************)
\* `if inference is None:`; otherwise `return inference`
GetCheck(t) ==
    /\ getpc[t] = "idle"
    /\ getpc' = [getpc EXCEPT ![t] = IF singleton = None THEN "construct" ELSE "idle"]
    /\ UNCHANGED <<model_dir, singleton, constructions, service>>
    /\ UNCHANGED <<inference, request, results, response, call, pc, depth, result,
                   trainedEntries, fallbackRuns, raisedAt>>

\* `inference = ModelInference()`; `return inference`
GetConstruct(t) ==
    /\ getpc[t] = "construct"
    /\ \E exists \in [Files -> BOOLEAN], loads \in [Files -> BOOLEAN] :
          /\ model_dir \in {None, [exists |-> exists, loads |-> loads]}
          /\ singleton' = [kind |-> "instance", id |-> constructions + 1,
                           self |-> LoadModels(exists, loads)]
    /\ constructions' = constructions + 1
    /\ getpc' = [getpc EXCEPT ![t] = "idle"]
    /\ UNCHANGED <<model_dir, service>>
    /\ UNCHANGED <<inference, request, results, response, call, pc, depth, result,
                   trainedEntries, fallbackRuns, raisedAt>>

NextSingleton ==
    \/ Startup
    \/ \E t \in Threads : GetCheck(t)
    \/ \E t \in Threads : GetConstruct(t)

SpecSingleton == Init /\ [][NextSingleton]_vars

(***************************************************************************)
(* services/recommendations.py and services/forecasting.py: two pure       *)
(* functions.  Averages are compared by cross-multiplication: on the       *)
(* integers below  sum/n > c  is  sum > c*n,  np.var > 50  is              *)
(* n*sum(x^2) - sum(x)^2 > 50*n^2  and  max > avg*1.5  is  2*n*max > 3*sum. *)
(***************************************************************************)
\* longest batch of readings handed to generate_recommendations
MaxReadings == 2
\* longest list of active alerts
MaxAlerts == 2
\* longest history handed to services.forecasting.forecast_energy
MaxPoints == 2

ServicePowers == {0, 20, 30, 31, 60}
ServiceTemps == {60, 75, 80}
ServiceReadings == [power : ServicePowers, temperature : ServiceTemps]
\* avg power 35, avg temperature 60, variance 10, peak/avg 1.2
ScenarioBatch ==
    <<[power |-> 42, temperature |-> 60], [power |-> 33, temperature |-> 60],
      [power |-> 33, temperature |-> 60], [power |-> 34, temperature |-> 60],
      [power |-> 34, temperature |-> 60], [power |-> 34, temperature |-> 60]>>
ReadingBatches == SeqsUpTo(ServiceReadings, MaxReadings) \cup {ScenarioBatch}
\* the `severity` of an alert
Severities == {"LOW", "HIGH", "CRITICAL"}
AlertLists == SeqsUpTo(Severities, MaxAlerts)
\* the `y` of a TimeSeriesPoint
YVals == {-10, 0, 50}
Series == SeqsUpTo(YVals, MaxPoints)

RECURSIVE Sum(_)
Sum(xs) == IF xs = <<>> THEN 0 ELSE Head(xs) + Sum(Tail(xs))

RECURSIVE MaxOf(_)
MaxOf(xs) == IF Len(xs) = 1 THEN xs[1] ELSE Max(Head(xs), MaxOf(Tail(xs)))

\* faulty variant: only CRITICAL alerts count
critical_alerts_OnlyCritical(alerts) ==
    SelectSeq(alerts, LAMBDA a : a = "CRITICAL")

\* `[a for a in alerts if a.get("severity") in ["CRITICAL", "HIGH"]]`
critical_alerts(alerts) ==
    SelectSeq(alerts, LAMBDA a : a \in {"CRITICAL", "HIGH"})

\* faulty variant: the default entry appended whatever was triggered
default_entry_Always(entries) ==
    Append(entries, [rule |-> "default", priority |-> "LOW", savings |-> TRUE])

\* Rule 6: `if not recommendations:` append the general entry
default_entry(entries) ==
    IF entries = <<>>
    THEN <<[rule |-> "default", priority |-> "LOW", savings |-> TRUE]>>
    ELSE entries

\* `savings` is TRUE for an entry carrying a figure and FALSE for None
generate_recommendations(readings, alerts) ==
    IF readings = <<>>
    THEN [recommendations |-> <<>>, efficiency_score |-> 0]
    ELSE LET n == Len(readings)
             powers == [i \in 1..n |-> readings[i].power]
             temps == [i \in 1..n |-> readings[i].temperature]
             squares == [i \in 1..n |-> powers[i] * powers[i]]
             rules ==
                 <<[rule |-> "avg_power", priority |-> "HIGH", savings |-> TRUE,
                    penalty |-> 15, hit |-> Sum(powers) > 30 * n],
                   [rule |-> "avg_temp", priority |-> "HIGH", savings |-> FALSE,
                    penalty |-> 10, hit |-> Sum(temps) > 75 * n],
                   [rule |-> "power_variance", priority |-> "MEDIUM", savings |-> TRUE,
                    penalty |-> 8,
                    hit |-> n * Sum(squares) - Sum(powers) * Sum(powers) > 50 * n * n],
                   [rule |-> "peak_ratio", priority |-> "MEDIUM", savings |-> TRUE,
                    penalty |-> 7, hit |-> 2 * n * MaxOf(powers) > 3 * Sum(powers)],
                   [rule |-> "alerts", priority |-> "CRITICAL", savings |-> FALSE,
                    penalty |-> 20, hit |-> critical_alerts(alerts) # <<>>]>>
             fired == SelectSeq(rules, LAMBDA r : r.hit)
             entries == [i \in DOMAIN fired |->
                            [rule |-> fired[i].rule, priority |-> fired[i].priority,
                             savings |-> fired[i].savings]]
             efficiency_score ==
                 100 - Sum([i \in DOMAIN fired |-> fired[i].penalty])
         IN  [recommendations |-> default_entry(entries),
              efficiency_score |-> Max(0, Min(100, efficiency_score))]

\* The branch `if len(data) < 10`.  With avg = num/den every entry is
\* written over the common denominator `scale` = 100*den.
ShortHistoryForecast(data, horizon) ==
    LET num == IF data # <<>> THEN Sum(data) ELSE 50
        den == IF data # <<>> THEN Len(data) ELSE 1
    IN  [forecast |-> [i \in 1..horizon |->
                          [yhat |-> 100 * num, yhat_lower |-> 85 * num,
                           yhat_upper |-> 115 * num, scale |-> 100 * den]]]

ServiceCalls ==
    [kind : {"call"}, fn : {"generate_recommendations"},
     readings : ReadingBatches, alerts : AlertLists]
    \cup [kind : {"call"}, fn : {"forecast_energy"}, data : Series, horizon : Horizons]

GenerateRecommendations ==
    /\ service.kind = "call"
    /\ service.fn = "generate_recommendations"
    /\ service' = [kind |-> "result", fn |-> service.fn,
                   readings |-> service.readings, alerts |-> service.alerts,
                   returned |-> generate_recommendations(service.readings, service.alerts)]
    /\ UNCHANGED <<model_dir, singleton, constructions, getpc>>
    /\ UNCHANGED <<inference, request, results, response, call, pc, depth, result,
                   trainedEntries, fallbackRuns, raisedAt>>

ForecastEnergy ==
    /\ service.kind = "call"
    /\ service.fn = "forecast_energy"
    /\ Len(service.data) < 10
    /\ service' = [kind |-> "result", fn |-> service.fn,
                   data |-> service.data, horizon |-> service.horizon,
                   returned |-> ShortHistoryForecast(service.data, service.horizon)]
    /\ UNCHANGED <<model_dir, singleton, constructions, getpc>>
    /\ UNCHANGED <<inference, request, results, response, call, pc, depth, result,
                   trainedEntries, fallbackRuns, raisedAt>>

InitServices ==
    /\ inference = None
    /\ request = None
    /\ results = <<>>
    /\ response = None
    /\ call = None
    /\ pc = "idle"
    /\ depth = 0
    /\ result = None
    /\ trainedEntries = 0
    /\ fallbackRuns = 0
    /\ raisedAt = {}
    /\ model_dir = None
    /\ singleton = None
    /\ constructions = 0
    /\ getpc = [t \in Threads |-> "idle"]
    /\ service \in ServiceCalls

NextServices ==
    \/ GenerateRecommendations
    \/ ForecastEnergy

SpecServices == InitServices /\ [][NextServices]_vars

(***************************************************************************)
(* The fallback block of forecast_energy as a function of the history, the *)
(* horizon and the values np.random.normal returns.                        *)
(***************************************************************************)
WalkCalls ==
    UNION {[kind : {"call"}, fn : {"fallback_forecast"}, historical_data : Histories,
            periods : {n}, draws : [1..n -> Perturb]] : n \in Horizons}

FallbackWalk ==
    /\ service.kind = "call"
    /\ service.fn = "fallback_forecast"
    /\ service' = [kind |-> "result", fn |-> service.fn,
                   historical_data |-> service.historical_data,
                   periods |-> service.periods, draws |-> service.draws,
                   returned |-> FallbackForecast(service.historical_data,
                                                 service.periods, service.draws)]
    /\ UNCHANGED <<model_dir, singleton, constructions, getpc>>
    /\ UNCHANGED <<inference, request, results, response, call, pc, depth, result,
                   trainedEntries, fallbackRuns, raisedAt>>

InitWalk ==
    /\ inference = None
    /\ request = None
    /\ results = <<>>
    /\ response = None
    /\ call = None
    /\ pc = "idle"
    /\ depth = 0
    /\ result = None
    /\ trainedEntries = 0
    /\ fallbackRuns = 0
    /\ raisedAt = {}
    /\ model_dir = None
    /\ singleton = None
    /\ constructions = 0
    /\ getpc = [t \in Threads |-> "idle"]
    /\ service \in WalkCalls

NextWalk == FallbackWalk

SpecWalk == InitWalk /\ [][NextWalk]_vars

\* the construction of a ModelInference over a tracked artifact directory
Dirs == [exists : [Files -> BOOLEAN], loads : [Files -> BOOLEAN]]

InitLoad ==
    /\ inference = None
    /\ request = None
    /\ results = <<>>
    /\ response = None
    /\ call = None
    /\ pc = "idle"
    /\ depth = 0
    /\ result = None
    /\ trainedEntries = 0
    /\ fallbackRuns = 0
    /\ raisedAt = {}
    /\ model_dir \in Dirs
    /\ singleton = None
    /\ constructions = 0
    /\ getpc = [t \in Threads |-> "idle"]
    /\ service = None

NextLoad == Startup

SpecLoad == InitLoad /\ [][NextLoad]_vars

Spec == Init /\ [][Next]_vars

(***************************************************************************)
(* Properties.                                                             *)
(***************************************************************************)
FallbackTag(op) == IF op = "forecast_energy" THEN "fallback" ELSE "heuristic"

Returned(op) == pc = "returned" /\ call.op = op

Ended == pc \in {"returned", "raised"}

\* the `try:` block of the current call raised at least once: every entry
\* of the block that did not produce the returned result ended in `except`
TryRaised ==
    trainedEntries >
        (IF pc = "returned" /\ result.model # FallbackTag(call.op) THEN 1 ELSE 0)

\* C1: once the trained path of a call has raised, the call ends by
\* returning the result of exactly one fallback computation, tagged with the
\* fallback tag; the trained path is entered at most once per call and the
\* call never ends in unbounded recursion.
C1_FallbackOnce ==
    /\ trainedEntries <= 1
    /\ result # RecursionError
    /\ (Ended /\ TryRaised) =>
          /\ pc = "returned"
          /\ fallbackRuns = 1
          /\ result.model = FallbackTag(call.op)

\* the results the engine can give for reading r without any failure
CleanResults(op, r) ==
    LET c == [kind |-> "call", op |-> op, args |-> r]
    IN  IF UsesFallback(inference, op) THEN FallbackResults(c)
        ELSE {o \in TrainedResults(c) : o.kind # "exception"}

\* C2: a batch request that passed validation is answered 200 with one
\* result per reading, in input order, total = number of readings; a reading
\* whose trained path raised is answered by the heuristic, every other
\* reading by what the engine gives without a failure; never a 500.
C2_BatchIsolation ==
    (response # None /\ request.endpoint \in BatchEndpoints
        /\ response.status \notin {400, 503}) =>
       /\ response.status = 200
       /\ Len(response.results) = Len(request.data)
       /\ response.total = Len(request.data)
       /\ \A i \in 1..Len(request.data) :
             IF i \in raisedAt
             THEN response.results[i].model = "heuristic"
             ELSE response.results[i]
                     \in CleanResults(EngineMethod(request.endpoint), request.data[i])

Ordered(r) ==
    \A i \in DOMAIN r.forecast :
        /\ i \in DOMAIN r.lower_bound
        /\ i \in DOMAIN r.upper_bound
        /\ r.lower_bound[i] <= r.forecast[i]
        /\ r.forecast[i] <= r.upper_bound[i]

\* C3: every result of forecast_energy has
\* lower_bound[i] <= forecast[i] <= upper_bound[i] at every index, on the
\* fallback path for any seed and on the trained path.
C3_BoundsOrdered == Returned("forecast_energy") => Ordered(result)

\* C4: forecast, lower_bound and upper_bound returned by forecast_energy
\* each have exactly `periods` elements, for every periods >= 0, on both
\* paths.
C4_HorizonLength ==
    Returned("forecast_energy") =>
       /\ Len(result.forecast) = call.args.periods
       /\ Len(result.lower_bound) = call.args.periods
       /\ Len(result.upper_bound) = call.args.periods

AllAbsent ==
    /\ inference # None
    /\ ~inference.forecast_model
    /\ ~inference.anomaly_model
    /\ ~inference.anomaly_scaler
    /\ ~inference.recommendation_model
    /\ ~inference.recommendation_scaler

\* C5: with every artifact absent, every engine call returns, and its
\* result carries the fallback tag of its method ('fallback' for
\* forecast_energy, 'heuristic' for the other two).
C5_AllAbsentFallback ==
    (AllAbsent /\ Ended) =>
       /\ pc = "returned"
       /\ result.model = FallbackTag(call.op)

C5_Witness ==
    /\ AllAbsent
    /\ Returned("forecast_energy")
    /\ result.model = "fallback"
    /\ call.args.historical_data # <<>>
    /\ call.args.periods = MaxHorizon

\* C6: every result of detect_anomalies, on the heuristic and on the
\* trained path, has 0 <= anomaly_score <= 1 and a boolean is_anomaly.
C6_ScoreInUnitInterval ==
    Returned("detect_anomalies") =>
       /\ 0 <= result.anomaly_score
       /\ result.anomaly_score <= 1000
       /\ result.is_anomaly \in BOOLEAN

C6_Witness ==
    /\ Returned("detect_anomalies")
    /\ result.model = "isolation_forest"
    /\ call.args.power = 1000
    /\ call.args.temperature = 200
    /\ call.args.vibration = 50

\* every stressor of b is at least that of a
StressorsLeq(a, b) ==
    /\ a.power <= b.power
    /\ a.temperature <= b.temperature
    /\ a.vibration <= b.vibration

\* C7: on the heuristic path the anomaly score is monotone in power,
\* temperature and vibration: the score returned for a reading B is at least
\* the score of every reading A whose stressors are all <= B's; and
\* (250, 90, 10) scores strictly higher than (100, 45, 2).
C7_ScoreMonotone ==
    (Returned("detect_anomalies") /\ result.model = "heuristic") =>
       /\ \A a \in Readings :
             StressorsLeq(a, call.args) =>
                HeuristicAnomaly(a).anomaly_score <= result.anomaly_score
       /\ (call.args = Reading(250, 90, 10)) =>
             result.anomaly_score > HeuristicAnomaly(Reading(100, 45, 2)).anomaly_score

C7_Witness ==
    /\ Returned("detect_anomalies")
    /\ result.model = "heuristic"
    /\ call.args = Reading(250, 90, 10)
    /\ result.anomaly_score = 600

\* C8: every result of recommend_maintenance, on both paths, has an
\* integer risk_level in 0..3 and the urgency the table gives for it
\* (0 NONE, 1 LOW, 2 MEDIUM, 3 HIGH); the table lookup never raises
\* KeyError, whatever the trained model predicts.
C8_RiskLevelAndUrgency ==
    /\ result # KeyError
    /\ Returned("recommend_maintenance") =>
          /\ result.risk_level \in 0..3
          /\ result.urgency =
                (CASE result.risk_level = 0 -> "NONE"
                   [] result.risk_level = 1 -> "LOW"
                   [] result.risk_level = 2 -> "MEDIUM"
                   [] result.risk_level = 3 -> "HIGH")

C8_Witness ==
    /\ Returned("recommend_maintenance")
    /\ result.model = "random_forest"
    /\ result.risk_level = 3
    /\ result.urgency = "HIGH"
    /\ trainedEntries = 1

\* C9: on the heuristic path risk_level is monotonically non-decreasing in
\* temperature, vibration and power: the level returned for a reading B is
\* at least the level of every reading A whose stressors are all <= B's.
C9_RiskMonotone ==
    (Returned("recommend_maintenance") /\ result.model = "heuristic") =>
       \A a \in Readings :
          StressorsLeq(a, call.args) =>
             HeuristicRecommend(a).risk_level <= result.risk_level

C9_Witness ==
    /\ Returned("recommend_maintenance")
    /\ result.model = "heuristic"
    /\ call.args = Reading(280, 95, 9)
    /\ result.risk_level > HeuristicRecommend(Reading(100, 45, 2)).risk_level

AllThresholdsExceeded ==
    /\ Returned("detect_anomalies")
    /\ result.model = "heuristic"
    /\ call.args.power = 1000
    /\ call.args.temperature = 200
    /\ call.args.vibration = 50

\* C10 as stated: on the heuristic path the reading (power 1000,
\* temperature 200, vibration 50) gets anomaly_score 1.0 and is_anomaly true.
C10_ScoreIsCap ==
    AllThresholdsExceeded => (result.anomaly_score = 1000 /\ result.is_anomaly)

\* C10 amended: on the heuristic path the reading (power 1000,
\* temperature 200, vibration 50) gets anomaly_score 0.8, the sum of the
\* three weights, which is below the cap of 1.0, and is_anomaly true.
C10_ScoreIsWeightSum ==
    AllThresholdsExceeded => (result.anomaly_score = 800 /\ result.is_anomaly)

C10_Witness == AllThresholdsExceeded /\ result.anomaly_score < 1000

FallbackForecastReturned ==
    Returned("forecast_energy") /\ result.model = "fallback"

\* C11: on the fallback path of forecast_energy every forecast value is
\* >= 20 and every lower_bound and upper_bound value lies in [20, 300], for
\* any history and horizon.
C11_BoundsInRange ==
    FallbackForecastReturned =>
       \A i \in DOMAIN result.forecast :
          /\ result.forecast[i] >= 20
          /\ result.lower_bound[i] >= 20
          /\ result.lower_bound[i] <= 300
          /\ result.upper_bound[i] >= 20
          /\ result.upper_bound[i] <= 300

EmptyHistoryFallback ==
    /\ call # None
    /\ call.op = "forecast_energy"
    /\ call.args.historical_data = <<>>
    /\ UsesFallback(inference, "forecast_energy")

\* C12 as stated: on the fallback path forecast_energy with an empty
\* history never raises and returns `periods` values all equal to the
\* floor 20.
C12_EmptyHistoryFloor ==
    (EmptyHistoryFallback /\ Ended) =>
       /\ pc = "returned"
       /\ Len(result.forecast) = call.args.periods
       /\ \A i \in DOMAIN result.forecast : result.forecast[i] = 20

\* C12 amended: on the fallback path forecast_energy with an empty history
\* never raises and returns `periods` values, none below the floor 20, that
\* continue from the default seed 100: the first value is 100 plus the
\* first perturbation, not the floor.
C12_EmptyHistoryDefaultSeed ==
    (EmptyHistoryFallback /\ Ended) =>
       /\ pc = "returned"
       /\ Len(result.forecast) = call.args.periods
       /\ \A i \in DOMAIN result.forecast : result.forecast[i] >= 20
       /\ (call.args.periods >= 1) => (result.forecast[1] - 100 \in Perturb)

C12_Witness ==
    /\ EmptyHistoryFallback
    /\ pc = "returned"
    /\ call.args.periods = MaxHorizon
    /\ result.forecast[1] = 105

\* C13: POST /forecast answers 400 only when the history is absent (no
\* request of the model lacks it): with the store initialized, a history of
\* any length, the empty list included, is passed to the engine and answered
\* with forecast, lower_bound and upper_bound of length horizon.
C13_ShortHistoryServed ==
    (response # None /\ request.endpoint = "/forecast" /\ response.status # 503) =>
       /\ response.status = 200
       /\ Len(response.forecast) = request.horizon
       /\ Len(response.lower_bound) = request.horizon
       /\ Len(response.upper_bound) = request.horizon

PostEndpoints == {"/forecast"} \cup BatchEndpoints

Rejected == response # None /\ response.status \in {400, 503}

NoEngineActivity ==
    /\ call = None
    /\ pc = "idle"
    /\ result = None
    /\ results = <<>>
    /\ trainedEntries = 0
    /\ fallbackRuns = 0

\* C14: a POST to /forecast, /anomaly or /recommendations is checked in the
\* order store, payload, engine: with the store uninitialized the answer is
\* 503 whatever the payload; with the store initialized an empty readings
\* list to /anomaly or /recommendations is answered 400; and a rejected
\* request invokes no engine method and produces no result.
C14_ChecksOrdered ==
    [][/\ (request = None /\ request' # None /\ request'.endpoint \in PostEndpoints) =>
             /\ (inference = None) => (response' = HTTPException(503))
             /\ (inference # None /\ request'.endpoint \in BatchEndpoints
                    /\ request'.data = <<>>) => (response' = HTTPException(400))
       /\ Rejected' => NoEngineActivity']_vars

C14_Witness ==
    /\ request # None
    /\ request.endpoint = "/anomaly"
    /\ request.data = <<>>
    /\ response = HTTPException(400)
    /\ inference # None
    /\ NoEngineActivity

\* every file of the capability exists and joblib.load reads it
Healthy(files) == \A f \in files : model_dir.exists[f] /\ model_dir.loads[f]

\* C15: _load_models never raises, whatever files are missing or
\* unreadable, and a capability whose own files all exist and load ends up
\* loaded whatever happens to the files of the other two capabilities.
C15_LoadIsolation ==
    (model_dir # None /\ constructions >= 1) =>
       /\ inference # None
       /\ Healthy({"forecast_prophet.pkl"}) => inference.forecast_model
       /\ Healthy({"anomaly_isolation_forest.pkl", "anomaly_scaler.pkl"}) =>
             (inference.anomaly_model /\ inference.anomaly_scaler)
       /\ Healthy({"recommendation_rf.pkl", "recommendation_scaler.pkl"}) =>
             (inference.recommendation_model /\ inference.recommendation_scaler)

C15_Witness ==
    /\ model_dir # None
    /\ constructions = 1
    /\ model_dir.exists["forecast_prophet.pkl"]
    /\ ~model_dir.loads["forecast_prophet.pkl"]
    /\ model_dir.exists["anomaly_isolation_forest.pkl"]
    /\ ~model_dir.exists["anomaly_scaler.pkl"]
    /\ Healthy({"recommendation_rf.pkl", "recommendation_scaler.pkl"})
    /\ ~inference.forecast_model
    /\ ~inference.anomaly_model
    /\ inference.recommendation_model
    /\ inference.recommendation_scaler

\* C16: for every capability and every outcome of loading, GET
\* /models/status names the trained model of a capability if and only if the
\* engine serves that capability through its trained path.
C16_StatusAgrees ==
    (response # None /\ request.endpoint = "/models/status"
        /\ response.state = "loaded") =>
       /\ (response.forecast_model = "prophet")
             <=> ~UsesFallback(inference, "forecast_energy")
       /\ (response.anomaly_model = "isolation_forest")
             <=> ~UsesFallback(inference, "detect_anomalies")
       /\ (response.recommendation_model = "random_forest")
             <=> ~UsesFallback(inference, "recommend_maintenance")

\* C17: the startup hook and get_inference together never construct a
\* second ModelInference in one process, under any order or interleaving of
\* their callers.
C17_LoadedOnce == constructions <= 1

\* a finished call of generate_recommendations
Recommended == service.kind = "result" /\ service.fn = "generate_recommendations"

\* the five rules of the report in rule order: which of them the batch and
\* the alerts trigger (none of the four statistics exists for an empty batch)
Triggers(readings, alerts) ==
    LET n == Len(readings)
        powers == [i \in 1..n |-> readings[i].power]
        temps == [i \in 1..n |-> readings[i].temperature]
        squares == [i \in 1..n |-> powers[i] * powers[i]]
    IN  <<n > 0 /\ Sum(powers) > 30 * n,
          n > 0 /\ Sum(temps) > 75 * n,
          n > 0 /\ n * Sum(squares) - Sum(powers) * Sum(powers) > 50 * n * n,
          n > 0 /\ 2 * n * MaxOf(powers) > 3 * Sum(powers),
          \E i \in DOMAIN alerts : alerts[i] \in {"CRITICAL", "HIGH"}>>

Penalties == <<15, 10, 8, 7, 20>>
RuleNames == <<"avg_power", "avg_temp", "power_variance", "peak_ratio", "alerts">>
Triggered(readings, alerts) ==
    SelectSeq(<<1, 2, 3, 4, 5>>, LAMBDA i : Triggers(readings, alerts)[i])

\* C18: for every non-empty batch and every alert set the efficiency score
\* is 100 minus the penalties of the triggered rules, clamped to [0, 100];
\* the scenario batch (avg power 35, avg temperature 60, variance 10,
\* peak/avg 1.2, no alerts) triggers the avg-power rule only and scores 85.
C18_EfficiencyScore ==
    (Recommended /\ service.readings # <<>>) =>
       LET hit == Triggered(service.readings, service.alerts)
           penalty == Sum([i \in DOMAIN hit |-> Penalties[hit[i]]])
       IN  /\ service.returned.efficiency_score = Max(0, Min(100, 100 - penalty))
           /\ (service.readings = ScenarioBatch /\ service.alerts = <<>>) =>
                 /\ hit = <<1>>
                 /\ service.returned.efficiency_score = 85

C18_Witness ==
    /\ Recommended
    /\ service.readings = ScenarioBatch
    /\ service.alerts = <<>>
    /\ service.returned.efficiency_score = 85
    /\ Len(service.returned.recommendations) = 1

\* one entry per triggered rule in rule order, or the single LOW default
EntriesFollowRules ==
    LET hit == Triggered(service.readings, service.alerts)
        entries == service.returned.recommendations
    IN  /\ Len(entries) = Max(1, Len(hit))
        /\ IF hit = <<>>
           THEN entries[1].rule = "default" /\ entries[1].priority = "LOW"
           ELSE \A i \in DOMAIN hit : entries[i].rule = RuleNames[hit[i]]

\* C19: for every batch, an empty one included, and every alert set the
\* report holds one entry per triggered rule in rule order, or exactly one
\* LOW default entry when no rule triggers; it never holds zero entries.
C19_EntriesPerRule == Recommended => EntriesFollowRules

\* C19 (amended): the above for every non-empty batch; an empty batch
\* returns no entry at all, whatever the alerts.
C19_EntriesPerRuleNonEmpty ==
    Recommended =>
       IF service.readings = <<>>
       THEN service.returned.recommendations = <<>>
       ELSE EntriesFollowRules

C19_Witness ==
    /\ Recommended
    /\ service.readings # <<>>
    /\ Triggered(service.readings, service.alerts) = <<>>
    /\ Len(service.returned.recommendations) = 1
    /\ service.returned.recommendations[1].priority = "LOW"

\* C20: with fewer than 10 points, none included, forecast_energy of
\* services/forecasting.py returns exactly `horizon` entries and every entry
\* has yhat_lower <= yhat <= yhat_upper, whatever the history values.
C20_ShortHistoryBounds ==
    (service.kind = "result" /\ service.fn = "forecast_energy") =>
       LET forecast == service.returned.forecast
       IN  /\ Len(forecast) = service.horizon
           /\ \A i \in DOMAIN forecast :
                 /\ forecast[i].yhat_lower <= forecast[i].yhat
                 /\ forecast[i].yhat <= forecast[i].yhat_upper

HeuristicAnomalyReturned ==
    Returned("detect_anomalies") /\ result.model = "heuristic"

\* readings that differ in runtime and production only
SameStressors(a, b) ==
    /\ a.power = b.power
    /\ a.temperature = b.temperature
    /\ a.vibration = b.vibration

\* C21: on the heuristic path the score is 0.3 for temperature > 80 plus
\* 0.3 for vibration > 5 plus 0.2 for power > 250, the thresholds strict;
\* anomaly_score is min(1.0, score) and is_anomaly holds iff score > 0.4;
\* runtime and production do not influence the result; the all-zero reading
\* gets anomaly_score 0 and is_anomaly false.
C21_HeuristicScore ==
    HeuristicAnomalyReturned =>
       LET r == call.args
           score == (IF r.temperature > 80 THEN 300 ELSE 0)
                    + (IF r.vibration > 5 THEN 300 ELSE 0)
                    + (IF r.power > 250 THEN 200 ELSE 0)
       IN  /\ result.anomaly_score = Min(1000, score)
           /\ result.is_anomaly <=> (score > 400)
           /\ (r.temperature <= 80 /\ r.vibration <= 5 /\ r.power <= 250) =>
                 (result.anomaly_score = 0 /\ ~result.is_anomaly)
           /\ \A a \in Readings : SameStressors(a, r) => (HeuristicAnomaly(a) = result)
           /\ (r.temperature = 0 /\ r.vibration = 0 /\ r.power = 0) =>
                 (result.anomaly_score = 0 /\ ~result.is_anomaly)

C21_Witness ==
    /\ HeuristicAnomalyReturned
    /\ call.args.temperature = 90
    /\ call.args.vibration = 5
    /\ call.args.power = 280
    /\ call.args.runtime = 0
    /\ result.anomaly_score = 500
    /\ result.is_anomaly

HeuristicRecommendReturned ==
    Returned("recommend_maintenance") /\ result.model = "heuristic"

\* C22: on the heuristic path risk_score is 1 for temperature > 80 plus 1
\* for vibration > 5 plus 0.5 for power > 250, risk_level is
\* min(3, floor(risk_score)), urgency is the table's entry for risk_level and
\* the text is 'Schedule routine maintenance' iff risk_score > 1, else
\* 'Normal operation'; the result is a function of temperature, vibration
\* and power, so a second call with the same input returns the same result.
C22_HeuristicRecommendation ==
    HeuristicRecommendReturned =>
       LET r == call.args
           risk_score == (IF r.temperature > 80 THEN 10 ELSE 0)
                         + (IF r.vibration > 5 THEN 10 ELSE 0)
                         + (IF r.power > 250 THEN 5 ELSE 0)
       IN  /\ result.risk_level = Min(3, risk_score \div 10)
           /\ result.urgency = urgency_map[result.risk_level]
           /\ result.recommendation =
                 (IF risk_score > 10 THEN "Schedule routine maintenance"
                  ELSE "Normal operation")
           /\ FallbackResults(call) = {result}
           /\ \A a \in Readings :
                 SameStressors(a, r) =>
                    FallbackResults([call EXCEPT !.args = a]) = {result}

C22_Witness ==
    /\ HeuristicRecommendReturned
    /\ call.args.temperature = 90
    /\ call.args.vibration = 2
    /\ call.args.power = 280
    /\ result.risk_level = 1
    /\ result.recommendation = "Schedule routine maintenance"

\* C23: the fallback forecast is a floored random walk over its own
\* output: forecast[1] = max(20, seed + d_1) with seed the last history
\* value (100 for an empty history), and every later value is
\* max(20, previous forecast value + d_i), d_i the i-th perturbation.
C23_FlooredWalk ==
    (service.kind = "result" /\ service.fn = "fallback_forecast") =>
       LET h == service.historical_data
           seed == IF h # <<>> THEN h[Len(h)] ELSE 100
           forecast == service.returned.forecast
       IN  \A i \in DOMAIN forecast :
              forecast[i] =
                 Max(20, (IF i = 1 THEN seed ELSE forecast[i - 1]) + service.draws[i])

\* C24: no step of a forecast_energy, detect_anomalies or
\* recommend_maintenance call, on either path and with a raising trained
\* path included, changes any of the five handles: once loaded, the store
\* stays as _load_models left it.
C24_StoreNeverMutated ==
    [][(inference # None) => (inference' = inference)]_vars

C24_Witness ==
    /\ inference # None
    /\ call # None
    /\ call.op = "detect_anomalies"
    /\ pc = "raised"
    /\ trainedEntries = MaxDepth
    /\ inference.anomaly_model
    /\ inference.anomaly_scaler

\* C25: on the trained path the forecast is computed from the supplied
\* history: for a returned trained forecast there is another history for
\* which, with the same horizon, the engine can return something else.
C25_HistoryUsed ==
    (Returned("forecast_energy") /\ result.model = "prophet") =>
       \E h \in Histories :
          TrainedResults([call EXCEPT !.args.historical_data = h])
             # TrainedResults(call)

\* every result recommend_maintenance can return, on either path
RecommendResults ==
    {HeuristicRecommend(r) : r \in Readings}
    \cup {o \in {TrainedRecommend(p) : p \in RiskPredictions} : o.kind # "exception"}

\* C26: on both paths of recommend_maintenance two results with the same
\* risk_level carry the same text, and a result with risk_level >= 1 never
\* carries 'Normal operation'.
C26_TextPerLevel ==
    Returned("recommend_maintenance") =>
       /\ (result.risk_level >= 1) => (result.recommendation # "Normal operation")
       /\ \A o \in RecommendResults :
             (o.risk_level = result.risk_level) =>
                (o.recommendation = result.recommendation)

\* C27: on the heuristic path of recommend_maintenance the risk score is at
\* most 2.5 for every reading, so risk_level is 0, 1 or 2, urgency is never
\* HIGH and the min(3, ...) clamp leaves the truncated score as it is.
C27_HeuristicBelowHigh ==
    HeuristicRecommendReturned =>
       /\ HeuristicRiskScore(call.args) <= 25
       /\ result.risk_level \in 0..2
       /\ result.urgency # "HIGH"
       /\ result.risk_level = IntOf(HeuristicRiskScore(call.args))

C27_Witness ==
    /\ HeuristicRecommendReturned
    /\ call.args.temperature = 200
    /\ call.args.vibration = 50
    /\ call.args.power = 1000
    /\ result.risk_level = 2
    /\ result.urgency = "MEDIUM"

====
